---- MODULE Spec2Model ----
(***************************************************************************)
(* State-machine model of the yt-high-quality-downloader web application:  *)
(*   src/downloader.py  build_downloader, download_highest_quality         *)
(*   src/app.py         download_video (POST /download), its post-response *)
(*                      deleter thread, and the background cleanup thread. *)
(* The extraction engine (yt_dlp) and the filesystem are the environment:  *)
(* every outcome they can produce is a nondeterministic choice.            *)
(***************************************************************************)
EXTENDS Integers, Sequences, FiniteSets, TLC

(* ------------------------------ bounds -------------------------------- *)
\* longest submitted form value
MaxUrlLen == 3
\* longest requested_downloads manifest returned by the engine
MaxRequested == 2
\* the clock stops advancing here
MaxTime == 450

(* ------------------------- program constants -------------------------- *)
\* _cleanup_downloads_background(interval_seconds: int = 300)
interval_seconds == 300
\* for attempt in range(5)
MaxAttempts == 5

\* the clock advances in steps of half the sweep interval
TickStep == interval_seconds \div 2

(* ------------------------------ strings ------------------------------- *)
\* characters that str.strip() removes
Whitespace == {" ", "\t", "\n"}
\* characters of submitted form values
Chars == {" ", "a"}

RECURSIVE SeqsUpTo(_, _)
SeqsUpTo(S, n) ==
    IF n = 0 THEN {<<>>}
    ELSE LET shorter == SeqsUpTo(S, n - 1)
         IN  shorter \cup {Append(s, c) : s \in shorter, c \in S}

RECURSIVE LStrip(_)
LStrip(s) ==
    IF s = <<>> THEN s
    ELSE IF Head(s) \in Whitespace THEN LStrip(Tail(s)) ELSE s

RECURSIVE RStrip(_)
RStrip(s) ==
    IF s = <<>> THEN s
    ELSE IF s[Len(s)] \in Whitespace THEN RStrip(SubSeq(s, 1, Len(s) - 1)) ELSE s

\* str.strip()
LStripOnly(s) == LStrip(s)
Strip(s) == RStrip(LStrip(s))

\* request.form.get("url") or ""
FormUrl(f) == IF f.present THEN f.value ELSE <<>>

\* str.lower() on the letters that occur in the engine's messages
LowerChar(c) ==
    CASE c = "F" -> "f"
      [] c = "M" -> "m"
      [] c = "P" -> "p"
      [] c = "E" -> "e"
      [] c = "G" -> "g"
      [] OTHER   -> c

Lower(s) == [i \in 1..Len(s) |-> LowerChar(s[i])]

\* sub in s
Contains(sub, s) ==
    \E i \in 0..(Len(s) - Len(sub)) : SubSeq(s, i + 1, i + Len(sub)) = sub

Keyword == <<"f", "f", "m", "p", "e", "g">>

\* messages the engine's DownloadError can carry
MsgMuxLower == <<"n", "o", " ", "f", "f", "m", "p", "e", "g">>
MsgMuxUpper == <<"F", "F", "m", "p", "e", "g", "?">>
MsgNearMiss == <<"f", "f", "m", "p", "e", " ", "g">>
MsgNetwork  == <<"h", "t", "t", "p", " ", "4", "0", "3">>
Messages == {MsgMuxLower, MsgMuxUpper, MsgNearMiss, MsgNetwork}

\* "ffmpeg" not in message.lower()  (negated)
NeedsFallbackAll(exc, msg) == exc = "DownloadError"
NeedsFallback(exc, msg) ==
    exc = "DownloadError" /\ Contains(Keyword, Lower(msg))

(* ------------------------------- paths -------------------------------- *)
DOWNLOAD_DIR == "downloads"

MkPath(d, stem, ext) == [dir |-> d, stem |-> stem, ext |-> ext]
\* a missing or empty filepath of a requested_downloads entry
NoPath == MkPath("", <<>>, "")

\* Path.with_suffix
with_suffix(p, ext) == [p EXCEPT !.ext = ext]

\* "%(title)s.%(ext)s" under output_dir; the engine derives the title from the URL
Title(url) == url
prepare_filename(url, ext) == MkPath(DOWNLOAD_DIR, Title(url), ext)

\* extensions the engine can produce
Exts == {"mp4", "webm", "m4a"}
\* extensions of the prepared filename
PreparedExts == {"mp4", "webm"}

\* every form value a client can submit
Forms ==
    {[present |-> FALSE, value |-> <<>>]}
      \cup {[present |-> TRUE, value |-> v] : v \in SeqsUpTo(Chars, MaxUrlLen)}
\* the form values of the concurrent scenario
FewForms ==
    {[present |-> TRUE, value |-> <<>>],
     [present |-> TRUE, value |-> <<"a">>]}

Urls == {Strip(FormUrl(f)) : f \in Forms} \ {<<>>}

\* a stale file left in the download directory by an earlier run
LeftoverPath == MkPath(DOWNLOAD_DIR, <<"z">>, "mp4")
\* a subdirectory of the download directory
SubDirPath == MkPath(DOWNLOAD_DIR, <<"s">>, "")
\* a file outside the download directory
OutsidePath == MkPath("elsewhere", <<"z">>, "mp4")

\* the files the engine can produce for a URL
Candidates(url) == {MkPath(DOWNLOAD_DIR, Title(url), e) : e \in Exts}

AllPaths ==
    UNION {Candidates(u) : u \in Urls} \cup {LeftoverPath, SubDirPath, OutsidePath}

Absent == [kind |-> "none", mtime |-> 0]
FileAt(t) == [kind |-> "file", mtime |-> t]
DirAt(t) == [kind |-> "dir", mtime |-> t]

\* Path.exists
Exists(fsys, p) == p \in DOMAIN fsys /\ fsys[p].kind # "none"
\* Path.is_file
IsFile(fsys, p) == p \in DOMAIN fsys /\ fsys[p].kind = "file"

(* --------------------------- engine outcomes -------------------------- *)
RequestedLists(url) ==
    SeqsUpTo({[filepath |-> p] : p \in Candidates(url) \cup {NoPath}}, MaxRequested)

OkOutcome(ext, writes, requested) ==
    [kind |-> "ok", msg |-> <<>>, ext |-> ext, writes |-> writes, requested |-> requested]
FailOutcome(exc, msg) ==
    [kind |-> exc, msg |-> msg, ext |-> "", writes |-> {}, requested |-> <<>>]

\* everything ydl.extract_info(url, download=True) can do
AllOutcomes(url) ==
    {OkOutcome(e, w, q) :
        e \in PreparedExts, w \in SUBSET Candidates(url), q \in RequestedLists(url)}
      \cup {FailOutcome(x, m) : x \in {"DownloadError", "OtherError"}, m \in Messages}

\* the outcomes of the concurrent scenario
FewOutcomes(url) ==
    {OkOutcome("mp4", {prepare_filename(url, "mp4")}, <<>>),
     OkOutcome("webm", {}, <<>>),
     FailOutcome("DownloadError", MsgMuxUpper),
     FailOutcome("DownloadError", MsgNetwork)}

(* ------------------------------- state -------------------------------- *)
\* the two overlapping POST /download requests
Req == {"r1", "r2"}

VARIABLES
    RESOLVED_FFMPEG,  \* whether _resolve_external_tools() found the muxer
    fs,               \* the filesystem: path -> entry
    now,              \* time.time()
    form,             \* request.form of each request
    pc,               \* position of each request worker / its deleter thread
    url,              \* the trimmed url
    status,           \* HTTP status of the response, 0 while none is decided
    orchCalls,        \* urls download_highest_quality was invoked with
    orchErr,          \* the exception download_highest_quality raised
    engCalls,         \* the extract_info invocations of the request
    prepared,         \* Path(ydl.prepare_filename(info))
    requested,        \* info.get("requested_downloads") or []
    video_path,       \* the path download_highest_quality returned
    seen,             \* the paths that existed when the result was resolved
    handleOpen,       \* file_handle is open
    attempt,          \* the deleter's loop variable
    delLog,           \* outcome of each unlink attempt of the deleter
    spc,              \* position of the background cleanup thread
    wakeAt,           \* end of its current time.sleep(interval_seconds)
    todo,             \* entries of DOWNLOAD_DIR.glob("*") not yet visited
    cur,              \* file_path of the current iteration
    curAge,           \* age computed for cur
    attempts,         \* unlink attempts of the current sweep, per path
    eligible          \* regular files older than the interval when the sweep began

reqVars == <<form, pc, url, status, orchCalls, orchErr, engCalls, prepared,
             requested, video_path, seen, handleOpen, attempt, delLog>>
sweepVars == <<spc, wakeAt, todo, cur, curAge, attempts, eligible>>
vars == <<RESOLVED_FFMPEG, fs, now, reqVars, sweepVars>>

\* the download directory as the process finds it
InitialFs ==
    [p \in AllPaths |->
        IF p \in {LeftoverPath, OutsidePath} THEN FileAt(0)
        ELSE IF p = SubDirPath THEN DirAt(0)
        ELSE Absent]

InitCommon ==
    /\ RESOLVED_FFMPEG \in BOOLEAN
    /\ fs = InitialFs
    /\ now = 0
    /\ url = [r \in Req |-> <<>>]
    /\ status = [r \in Req |-> 0]
    /\ orchCalls = [r \in Req |-> <<>>]
    /\ orchErr = [r \in Req |-> "none"]
    /\ engCalls = [r \in Req |-> <<>>]
    /\ prepared = [r \in Req |-> NoPath]
    /\ requested = [r \in Req |-> <<>>]
    /\ video_path = [r \in Req |-> NoPath]
    /\ seen = [r \in Req |-> {}]
    /\ handleOpen = [r \in Req |-> FALSE]
    /\ attempt = [r \in Req |-> 0]
    /\ delLog = [r \in Req |-> <<>>]
    /\ spc = "sleeping"
    /\ wakeAt = interval_seconds
    /\ todo = {}
    /\ cur = NoPath
    /\ curAge = 0
    /\ attempts = [p \in AllPaths |-> 0]
    /\ eligible = {}

\* two requests arrive while the cleanup thread runs
Init ==
    /\ InitCommon
    /\ form \in [Req -> FewForms]
    /\ pc = [r \in Req |-> "Received"]

\* a single request with any form value
InitSeq ==
    /\ InitCommon
    /\ \E f \in Forms : form = [r \in Req |-> f]
    /\ pc = [r \in Req |-> IF r = "r1" THEN "Received" ELSE "Absent"]

(* ------------------------ download_highest_quality -------------------- *)
Write(fsys, paths, t) ==
    [p \in DOMAIN fsys |-> IF p \in paths THEN FileAt(t) ELSE fsys[p]]
Remove(fsys, path) ==
    [p \in DOMAIN fsys |-> IF p = path THEN Absent ELSE fsys[p]]

EngineCall(u, merge, o) ==
    [url |-> u,
     merge_to_mp4 |-> merge,
     format_selector |-> IF merge THEN "default" ELSE "relaxed",
     result |-> o.kind,
     msg |-> o.msg]

\* the first requested_downloads entry whose filepath exists
RECURSIVE FirstExisting(_, _)
FirstExisting(fsys, req) ==
    IF req = <<>> THEN NoPath
    ELSE IF Head(req).filepath # NoPath /\ Exists(fsys, Head(req).filepath)
         THEN Head(req).filepath
         ELSE FirstExisting(fsys, Tail(req))

\* lines 194-211; NoPath stands for the FileNotFoundError of line 208
ResolveResultPreparedFirst(fsys, prep, req) ==
    IF Exists(fsys, prep) THEN prep
    ELSE IF Exists(fsys, with_suffix(prep, "mp4")) THEN with_suffix(prep, "mp4")
    ELSE FirstExisting(fsys, req)
ResolveResult(fsys, prep, req) ==
    LET merged_candidate == with_suffix(prep, "mp4")
    IN  IF Exists(fsys, merged_candidate) THEN merged_candidate
        ELSE IF Exists(fsys, prep) THEN prep
        ELSE FirstExisting(fsys, req)

\* download_video catches the orchestrator's exception: abort(502, ...)
Fail502(r, err) ==
    /\ orchErr' = [orchErr EXCEPT ![r] = err]
    /\ status' = [status EXCEPT ![r] = 502]
    /\ pc' = [pc EXCEPT ![r] = "Failed"]

\* request.form.get("url"), strip, the 400 of an empty url
Validate(r) ==
    /\ pc[r] = "Received"
    /\ LET u == Strip(FormUrl(form[r]))
       IN  /\ url' = [url EXCEPT ![r] = u]
           /\ IF u = <<>>
              THEN /\ status' = [status EXCEPT ![r] = 400]
                   /\ pc' = [pc EXCEPT ![r] = "Rejected"]
              ELSE /\ pc' = [pc EXCEPT ![r] = "Validated"]
                   /\ UNCHANGED status
    /\ UNCHANGED <<RESOLVED_FFMPEG, fs, now, form, orchCalls, orchErr, engCalls,
                   prepared, requested, video_path, seen, handleOpen, attempt,
                   delLog, sweepVars>>

\* download_highest_quality is entered; build_downloader(merge_to_mp4=True) and
\* the first extract_info
FirstAttempt(r, outs) ==
    /\ pc[r] = "Validated"
    /\ orchCalls' = [orchCalls EXCEPT ![r] = Append(@, url[r])]
    /\ IF ~RESOLVED_FFMPEG
       THEN \* build_downloader raises FileNotFoundError, which is no DownloadError
            /\ Fail502(r, "ToolMissing")
            /\ UNCHANGED <<fs, engCalls, prepared, requested>>
       ELSE \E o \in outs :
            /\ engCalls' = [engCalls EXCEPT ![r] = Append(@, EngineCall(url[r], TRUE, o))]
            /\ IF o.kind = "ok"
               THEN /\ fs' = Write(fs, o.writes, now)
                    /\ prepared' = [prepared EXCEPT ![r] = prepare_filename(url[r], o.ext)]
                    /\ requested' = [requested EXCEPT ![r] = o.requested]
                    /\ pc' = [pc EXCEPT ![r] = "Resolving"]
                    /\ UNCHANGED <<orchErr, status>>
               ELSE IF NeedsFallback(o.kind, o.msg)
               THEN /\ pc' = [pc EXCEPT ![r] = "Fallback"]
                    /\ UNCHANGED <<fs, prepared, requested, orchErr, status>>
               ELSE /\ Fail502(r, "DownloadFailure")
                    /\ UNCHANGED <<fs, prepared, requested>>
    /\ UNCHANGED <<RESOLVED_FFMPEG, now, form, url, video_path, seen, handleOpen,
                   attempt, delLog, sweepVars>>

\* the except branch: build_downloader(merge_to_mp4=False) and the second extract_info
FallbackAttempt(r, outs) ==
    /\ pc[r] = "Fallback"
    /\ \E o \in outs :
        /\ engCalls' = [engCalls EXCEPT ![r] = Append(@, EngineCall(url[r], FALSE, o))]
        /\ IF o.kind = "ok"
           THEN /\ fs' = Write(fs, o.writes, now)
                /\ prepared' = [prepared EXCEPT ![r] = prepare_filename(url[r], o.ext)]
                /\ requested' = [requested EXCEPT ![r] = o.requested]
                /\ pc' = [pc EXCEPT ![r] = "Resolving"]
                /\ UNCHANGED <<orchErr, status>>
           ELSE /\ Fail502(r, "DownloadFailure")
                /\ UNCHANGED <<fs, prepared, requested>>
    /\ UNCHANGED <<RESOLVED_FFMPEG, now, form, url, orchCalls, video_path, seen,
                   handleOpen, attempt, delLog, sweepVars>>

\* the result resolution after a successful extract_info
Resolve(r) ==
    /\ pc[r] = "Resolving"
    /\ seen' = [seen EXCEPT ![r] = {p \in AllPaths : Exists(fs, p)}]
    /\ LET res == ResolveResult(fs, prepared[r], requested[r])
       IN  IF res = NoPath
           THEN /\ Fail502(r, "ResultMissing")
                /\ UNCHANGED video_path
           ELSE /\ video_path' = [video_path EXCEPT ![r] = res]
                /\ pc' = [pc EXCEPT ![r] = "Resolved"]
                /\ UNCHANGED <<orchErr, status>>
    /\ UNCHANGED <<RESOLVED_FFMPEG, fs, now, form, url, orchCalls, engCalls,
                   prepared, requested, handleOpen, attempt, delLog, sweepVars>>

(* ---------------------------- download_video -------------------------- *)
\* video_path.open("rb"), send_file, call_on_close: the response starts streaming.
\* The open is outside the try of download_video: its failure is unhandled.
OpenFile(r) ==
    /\ pc[r] = "Resolved"
    /\ IF IsFile(fs, video_path[r])
       THEN /\ handleOpen' = [handleOpen EXCEPT ![r] = TRUE]
            /\ status' = [status EXCEPT ![r] = 200]
            /\ pc' = [pc EXCEPT ![r] = "Streaming"]
       ELSE /\ status' = [status EXCEPT ![r] = 500]
            /\ pc' = [pc EXCEPT ![r] = "Crashed"]
            /\ UNCHANGED handleOpen
    /\ UNCHANGED <<RESOLVED_FFMPEG, fs, now, form, url, orchCalls, orchErr,
                   engCalls, prepared, requested, video_path, seen, attempt,
                   delLog, sweepVars>>

\* the response is fully sent and closed: remove_file starts the _cleanup thread
CloseResponse(r) ==
    /\ pc[r] = "Streaming"
    /\ pc' = [pc EXCEPT ![r] = "CleanupScheduled"]
    /\ UNCHANGED <<RESOLVED_FFMPEG, fs, now, form, url, status, orchCalls, orchErr,
                   engCalls, prepared, requested, video_path, seen, handleOpen,
                   attempt, delLog, sweepVars>>

\* _cleanup: file_handle.close(), time.sleep(1), the loop begins
CloseHandle(r) ==
    /\ pc[r] = "CleanupScheduled"
    /\ handleOpen' = [handleOpen EXCEPT ![r] = FALSE]
    /\ attempt' = [attempt EXCEPT ![r] = 0]
    /\ pc' = [pc EXCEPT ![r] = "Attempting"]
    /\ UNCHANGED <<RESOLVED_FFMPEG, fs, now, form, url, status, orchCalls, orchErr,
                   engCalls, prepared, requested, video_path, seen, delLog,
                   sweepVars>>

\* the attempt == 4 of the except OSError branch
LastAttempt == 4

\* one iteration of for attempt in range(5)
UnlinkAttemptNoGiveUp(r) ==
    /\ pc[r] = "Attempting"
    /\ IF ~Exists(fs, video_path[r])
       THEN /\ delLog' = [delLog EXCEPT ![r] = Append(@, "missing")]
            /\ pc' = [pc EXCEPT ![r] = "Done"]
            /\ UNCHANGED <<fs, attempt>>
       ELSE \/ /\ fs' = Remove(fs, video_path[r])
               /\ delLog' = [delLog EXCEPT ![r] = Append(@, "deleted")]
               /\ pc' = [pc EXCEPT ![r] = "Done"]
               /\ UNCHANGED attempt
            \/ /\ delLog' = [delLog EXCEPT ![r] = Append(@, "oserror")]
               /\ attempt[r] <= MaxAttempts
               /\ attempt' = [attempt EXCEPT ![r] = @ + 1]
               /\ UNCHANGED <<fs, pc>>
    /\ UNCHANGED <<RESOLVED_FFMPEG, now, form, url, status, orchCalls, orchErr,
                   engCalls, prepared, requested, video_path, seen, handleOpen,
                   sweepVars>>
UnlinkAttempt(r) ==
    /\ pc[r] = "Attempting"
    /\ IF ~Exists(fs, video_path[r])
       THEN \* FileNotFoundError: return
            /\ delLog' = [delLog EXCEPT ![r] = Append(@, "missing")]
            /\ pc' = [pc EXCEPT ![r] = "Done"]
            /\ UNCHANGED <<fs, attempt>>
       ELSE \/ \* unlink succeeds: logged, return
               /\ fs' = Remove(fs, video_path[r])
               /\ delLog' = [delLog EXCEPT ![r] = Append(@, "deleted")]
               /\ pc' = [pc EXCEPT ![r] = "Done"]
               /\ UNCHANGED attempt
            \/ \* OSError: give up on the last attempt, else sleep and go on
               /\ delLog' = [delLog EXCEPT ![r] = Append(@, "oserror")]
               /\ IF attempt[r] = LastAttempt \/ attempt[r] + 1 >= MaxAttempts
                  THEN /\ pc' = [pc EXCEPT ![r] = "GaveUp"]
                       /\ UNCHANGED attempt
                  ELSE /\ attempt' = [attempt EXCEPT ![r] = @ + 1]
                       /\ UNCHANGED pc
               /\ UNCHANGED fs
    /\ UNCHANGED <<RESOLVED_FFMPEG, now, form, url, status, orchCalls, orchErr,
                   engCalls, prepared, requested, video_path, seen, handleOpen,
                   sweepVars>>

(* --------------------- _cleanup_downloads_background ------------------- *)
\* time.sleep(interval_seconds) returns; DOWNLOAD_DIR.glob("*") lists the directory
SweepWake ==
    /\ spc = "sleeping"
    /\ now >= wakeAt
    /\ todo' = {p \in AllPaths : p.dir = DOWNLOAD_DIR /\ Exists(fs, p)}
    /\ eligible' = {[path |-> p, mtime |-> fs[p].mtime] :
                      p \in {q \in AllPaths :
                                 /\ q.dir = DOWNLOAD_DIR
                                 /\ IsFile(fs, q)
                                 /\ now - fs[q].mtime > interval_seconds}}
    /\ attempts' = [p \in AllPaths |-> 0]
    /\ spc' = "iterating"
    /\ UNCHANGED <<RESOLVED_FFMPEG, fs, now, reqVars, wakeAt, cur, curAge>>

\* the for loop is exhausted: back to time.sleep
SweepSleep ==
    /\ spc = "iterating"
    /\ todo = {}
    /\ wakeAt' = now + interval_seconds
    /\ spc' = "sleeping"
    /\ UNCHANGED <<RESOLVED_FFMPEG, fs, now, reqVars, todo, cur, curAge, attempts,
                   eligible>>

\* next file_path; if not file_path.is_file(): continue
SweepIsFile ==
    /\ spc = "iterating"
    /\ \E f \in todo :
        /\ todo' = todo \ {f}
        /\ cur' = f
        /\ spc' = IF IsFile(fs, f) THEN "stat" ELSE "iterating"
    /\ UNCHANGED <<RESOLVED_FFMPEG, fs, now, reqVars, wakeAt, curAge, attempts,
                   eligible>>

\* age = time.time() - file_path.stat().st_mtime; the stat is outside the try
SweepStat ==
    /\ spc = "stat"
    /\ IF ~Exists(fs, cur)
       THEN \* FileNotFoundError leaves _worker: the thread ends
            /\ spc' = "dead"
            /\ UNCHANGED curAge
       ELSE /\ curAge' = now - fs[cur].mtime
            /\ spc' = IF now - fs[cur].mtime < interval_seconds
                      THEN "iterating" ELSE "unlink"
    /\ UNCHANGED <<RESOLVED_FFMPEG, fs, now, reqVars, wakeAt, todo, cur, attempts,
                   eligible>>

\* try: file_path.unlink() except OSError: log
SweepUnlink ==
    /\ spc = "unlink"
    /\ attempts' = [attempts EXCEPT ![cur] = @ + 1]
    /\ \/ /\ IsFile(fs, cur)
          /\ fs' = Remove(fs, cur)
       \/ UNCHANGED fs
    /\ spc' = "iterating"
    /\ UNCHANGED <<RESOLVED_FFMPEG, now, reqVars, wakeAt, todo, cur, curAge,
                   eligible>>

\* time passes while threads wait (in the engine, on the client, in time.sleep);
\* consecutive statements take no time at the clock's granularity
Tick ==
    /\ now + TickStep <= MaxTime
    /\ \A r \in Req : pc[r] \notin {"Resolving", "Resolved"}
    /\ spc \in {"sleeping", "dead"}
    /\ now' = now + TickStep
    /\ UNCHANGED <<RESOLVED_FFMPEG, fs, reqVars, sweepVars>>

(* --------------------------- specifications --------------------------- *)
Next ==
    \/ \E r \in Req : Validate(r)
    \/ \E r \in Req : FirstAttempt(r, FewOutcomes(url[r]))
    \/ \E r \in Req : FallbackAttempt(r, FewOutcomes(url[r]))
    \/ \E r \in Req : Resolve(r)
    \/ \E r \in Req : OpenFile(r)
    \/ \E r \in Req : CloseResponse(r)
    \/ \E r \in Req : CloseHandle(r)
    \/ \E r \in Req : UnlinkAttempt(r)
    \/ SweepWake
    \/ SweepSleep
    \/ SweepIsFile
    \/ SweepStat
    \/ SweepUnlink
    \/ Tick

Spec == Init /\ [][Next]_vars

\* one request alone, every engine outcome
NextSeq ==
    \/ \E r \in Req : Validate(r)
    \/ \E r \in Req : FirstAttempt(r, AllOutcomes(url[r]))
    \/ \E r \in Req : FallbackAttempt(r, AllOutcomes(url[r]))
    \/ \E r \in Req : Resolve(r)
    \/ \E r \in Req : OpenFile(r)
    \/ \E r \in Req : CloseResponse(r)
    \/ \E r \in Req : CloseHandle(r)
    \/ \E r \in Req : UnlinkAttempt(r)

SpecSeq == InitSeq /\ [][NextSeq]_vars

(* ------------------------------- claims ------------------------------- *)
\* the orchestrator has returned or raised
Returned == {"Resolved", "Streaming", "CleanupScheduled", "Attempting", "Done",
             "GaveUp", "Crashed"}

\* C1: with the muxer absent, download_highest_quality never raises the
\* muxer-missing error to its caller, and a result it returns comes from the
\* relaxed single-stream invocation.
C1_FallbackLaw ==
    \A r \in Req :
        ~RESOLVED_FFMPEG =>
            /\ orchErr[r] # "ToolMissing"
            /\ pc[r] \in Returned =>
                 /\ engCalls[r] # <<>>
                 /\ ~engCalls[r][Len(engCalls[r])].merge_to_mp4

\* C2: while a request has its result and its response is not yet closed,
\* nobody has unlinked the result file.
C2_NoDeletionBeforeClose ==
    \A r \in Req :
        pc[r] \in {"Resolved", "Streaming"} => IsFile(fs, video_path[r])

\* the form value is missing, empty or made of whitespace only
WhitespaceOnly(f) ==
    ~f.present \/ \A i \in 1..Len(f.value) : f.value[i] \in Whitespace

\* u is s without its leading and trailing whitespace
IsTrimOf(u, s) ==
    /\ u # <<>>
    /\ u[1] \notin Whitespace
    /\ u[Len(u)] \notin Whitespace
    /\ \E i \in 1..Len(s) :
        /\ i + Len(u) - 1 <= Len(s)
        /\ u = SubSeq(s, i, i + Len(u) - 1)
        /\ \A k \in 1..Len(s) : (k < i \/ k > i + Len(u) - 1) => s[k] \in Whitespace

\* C3: a missing, empty or whitespace-only url is answered 400 without the
\* orchestrator being invoked or any file touched; any other url reaches the
\* orchestrator exactly once, trimmed.
C3_Validation ==
    \A r \in Req :
        pc[r] \notin {"Absent", "Received"} =>
            IF WhitespaceOnly(form[r])
            THEN /\ pc[r] = "Rejected"
                 /\ status[r] = 400
                 /\ orchCalls[r] = <<>>
                 /\ engCalls[r] = <<>>
                 /\ video_path[r] = NoPath
                 /\ ~handleOpen[r]
                 /\ delLog[r] = <<>>
            ELSE /\ status[r] # 400
                 /\ IF pc[r] = "Validated"
                    THEN orchCalls[r] = <<>>
                    ELSE /\ Len(orchCalls[r]) = 1
                         /\ IsTrimOf(orchCalls[r][1], form[r].value)

C3_Witness ==
    \E r \in Req :
        /\ pc[r] \in Returned
        /\ Len(orchCalls[r]) = 1
        /\ orchCalls[r][1] # form[r].value

\* the messages that name the muxing tool
MuxerMessages == {MsgMuxLower, MsgMuxUpper}
NamesMuxer(c) == c.result = "DownloadError" /\ c.msg \in MuxerMessages

\* C4: at most two extract_info invocations per call; the second one is the
\* relaxed one and follows exactly a first failure that names the muxer; any
\* other failure, of the first or of the second invocation, ends the call.
C4_RetryOnce ==
    \A r \in Req :
        LET c == engCalls[r]
        IN  /\ Len(c) <= 2
            /\ Len(c) >= 1 =>
                 /\ c[1].merge_to_mp4
                 /\ c[1].format_selector = "default"
            /\ Len(c) = 2 =>
                 /\ NamesMuxer(c[1])
                 /\ ~c[2].merge_to_mp4
                 /\ c[2].format_selector = "relaxed"
                 /\ c[2].url = c[1].url
            /\ (Len(c) = 1 /\ NamesMuxer(c[1])) => pc[r] = "Fallback"
            /\ (Len(c) = 1 /\ c[1].result # "ok" /\ ~NamesMuxer(c[1])) =>
                 /\ pc[r] = "Failed"
                 /\ orchErr[r] = "DownloadFailure"
            /\ (Len(c) = 2 /\ c[2].result # "ok") =>
                 /\ pc[r] = "Failed"
                 /\ orchErr[r] = "DownloadFailure"

C4_Witness ==
    \E r \in Req :
        /\ Len(engCalls[r]) = 2
        /\ engCalls[r][2].result = "ok"
        /\ pc[r] \in Returned

\* C5: a file another actor has already deleted never ends the cleanup thread.
C5_SweeperNeverDies == spc # "dead"

\* C6: the result is the .mp4 sibling of the prepared filename if it exists,
\* else the prepared filename if it exists, else the first requested download
\* that exists, else the call fails with ResultMissing; a returned path existed
\* when it was checked.
C6_ResolutionOrder ==
    \A r \in Req :
        (pc[r] \in Returned \/ orchErr[r] = "ResultMissing") =>
            LET merged == MkPath(prepared[r].dir, prepared[r].stem, "mp4")
                hits == {i \in 1..Len(requested[r]) : requested[r][i].filepath \in seen[r]}
            IN  /\ IF merged \in seen[r] THEN video_path[r] = merged
                   ELSE IF prepared[r] \in seen[r] THEN video_path[r] = prepared[r]
                   ELSE IF hits # {}
                   THEN \E i \in hits :
                           /\ \A j \in hits : i <= j
                           /\ video_path[r] = requested[r][i].filepath
                   ELSE /\ pc[r] = "Failed"
                        /\ orchErr[r] = "ResultMissing"
                        /\ video_path[r] = NoPath
                /\ video_path[r] # NoPath => video_path[r] \in seen[r]
                /\ orchErr[r] = "ResultMissing" => video_path[r] = NoPath

C6_Witness ==
    \E r \in Req :
        /\ pc[r] \in Returned
        /\ prepared[r].ext # "mp4"
        /\ prepared[r] \in seen[r]
        /\ with_suffix(prepared[r], "mp4") \in seen[r]
        /\ video_path[r].ext = "mp4"

\* C7: every request ends 400 (exactly when the trimmed url is empty), 502
\* (exactly when the orchestrator failed, nothing streamed, no deleter) or 200;
\* no other outcome is reachable.
C7_ThreeOutcomes ==
    \A r \in Req :
        /\ status[r] \in {0, 200, 400, 502}
        /\ status[r] = 400 <=> pc[r] = "Rejected"
        /\ pc[r] = "Rejected" => WhitespaceOnly(form[r])
        /\ status[r] = 502 <=> orchErr[r] # "none"
        /\ status[r] = 502 => /\ ~handleOpen[r]
                              /\ delLog[r] = <<>>
                              /\ pc[r] = "Failed"
        /\ pc[r] \in Returned \ {"Resolved"} => status[r] = 200

\* the request holds a result file it has not yet finished deleting
Holding == {"Resolved", "Streaming", "CleanupScheduled", "Attempting"}

\* C8: overlapping requests never share an output path, so a file has at most
\* one open response stream and at most one pending deleter.
C8_DistinctFiles ==
    \A r1, r2 \in Req :
        (r1 # r2 /\ pc[r1] \in Holding /\ pc[r2] \in Holding) =>
            video_path[r1] # video_path[r2]

\* C9: the deleter closes the handle first, makes at most 5 unlink attempts,
\* ends Done at the first success or missing file and GaveUp after the 5th
\* failure, can always take its next step, and leaves the response at 200.
C9_BoundedDeleter ==
    \A r \in Req :
        LET L == delLog[r]
        IN  /\ Len(L) <= 5
            /\ \A i \in 1..(Len(L) - 1) : L[i] = "oserror"
            /\ pc[r] = "Done" <=> (L # <<>> /\ L[Len(L)] \in {"deleted", "missing"})
            /\ pc[r] = "GaveUp" <=> (Len(L) = 5 /\ L[5] = "oserror")
            /\ L # <<>> => ~handleOpen[r]
            /\ pc[r] \in {"CleanupScheduled", "Attempting", "Done", "GaveUp"} =>
                 status[r] = 200
            /\ pc[r] = "CleanupScheduled" => ENABLED CloseHandle(r)
            /\ pc[r] = "Attempting" => ENABLED UnlinkAttempt(r)

C9_Witness ==
    \E r1, r2 \in Req :
        /\ pc[r1] = "GaveUp"
        /\ pc[r2] = "Done"
        /\ delLog[r2][Len(delLog[r2])] = "missing"

\* C10: a sweep attempts exactly one deletion of each regular file of the
\* download directory that was older than the interval, and none of a younger
\* file, a directory or a path outside the download directory.
C10_SweepExactlyOnce ==
    /\ \A p \in AllPaths :
        /\ attempts[p] <= 1
        /\ attempts[p] > 0 => (p.dir = DOWNLOAD_DIR /\ p # SubDirPath)
    /\ spc = "unlink" => curAge >= interval_seconds
    /\ spc \in {"sleeping", "dead"} =>
         \A e \in eligible :
            fs[e.path] = FileAt(e.mtime) => attempts[e.path] = 1

====
